---- MODULE Spec2Model ----
(***************************************************************************)
(* Streaming broadcast and history synchronisation of                      *)
(* Services/mvpgpt/app/main.py: the ConnectionManager, the history helpers,*)
(* generate_ai_response and the three endpoints (/chat, /reset, /ws).      *)
(*                                                                         *)
(* Every coroutine is a process.  A step of a process is the code it runs  *)
(* between two awaits that can suspend it (an HTTP call to the history     *)
(* store, a send on a websocket); the steps of different processes         *)
(* interleave freely, as tasks on one asyncio event loop do.               *)
(*                                                                         *)
(* JSON values are records tagged with their kind, so that a payload of    *)
(* any shape can be handed to the parsing code.  Python's None and JSON's  *)
(* null are JNull.  Texts are strings.  json.dumps/JSON.parse on the live  *)
(* channel are injective and not modelled: an inbox holds the message.     *)
(***************************************************************************)
EXTENDS Integers, Sequences, FiniteSets, TLC

\* ------------------------------------------------------------------ bounds

\* The backend yields at most MaxChunks chunks (empty ones included) per
\* generation.
MaxChunks == 2

\* The environment of a run fails at most MaxFaults times: a request to the
\* history store that raises or is answered with something other than the
\* stored history, a backend that raises, a client that leaves.
MaxFaults == 1

\* The histories the store starts with in the runs that examine how a
\* history is formatted hold at most MaxHistory records.
MaxHistory == 2

\* /chat requests, websocket connections and /reset requests of one run.
Req == {"r1", "r2"}
Conn == {"c1", "c2"}
Rst == {"d1"}
Proc == Req \cup Conn \cup Rst

\* The texts of the backend's chunks for each request, in the order it
\* yields them; any chunk may come without text ("") instead.
Script(r) ==
    IF r = "r1" THEN <<"Hel", "lo", " wor", "ld">>
    ELSE <<"Bon", "jour", " mon", "de">>
ChunkTexts(r, k) == {Script(r)[k], ""}

\* str(e) of an exception raised by the backend.
BackendError == "boom"

\* ------------------------------------------------------------- JSON values

JNull == [kind |-> "null"]
JNum == [kind |-> "num"]
JStr(s) == [kind |-> "str", s |-> s]
JList(xs) == [kind |-> "list", items |-> xs]
JDict(f) == [kind |-> "dict", fields |-> f]

\* {"role": role, "content": content}, the body save_message posts.
Record(role, content) == JDict([role |-> JStr(role), content |-> JStr(content)])

\* dict.get(key, default)
Get(d, key, default) ==
    IF key \in DOMAIN d.fields THEN d.fields[key] ELSE default

IsDict(v) == v.kind = "dict"
IsList(v) == v.kind = "list"

\* ------------------------------------------------- history store (external)

\* Histories the store may hold when the service starts.
InitialStores == { <<Record("user", "a"), Record("assistant", "b")>> }

\* Records of every kind the formatting distinguishes: the roles it maps to
\* a model turn, other roles, no role, no content.
ContextRecords ==
    { Record("user", "a"), Record("assistant", "b"), Record("model", "c"),
      Record("system", "d"), JDict([content |-> JStr("e")]),
      JDict([role |-> JStr("model")]) }

ContextStores == UNION { [1..n -> ContextRecords] : n \in 0..MaxHistory }

\* What a GET /get can come back with.  exc: the request raised (transport
\* error, timeout); status: the HTTP status; blank: resp.text.strip() is
\* empty; valid: the body is JSON; data: its value.
Response(exc, status, blank, valid, data) ==
    [exc |-> exc, status |-> status, blank |-> blank, valid |-> valid, data |-> data]

\* The two shapes the store protocol documents, for stored history s.
FaithfulResponses(s) ==
    { Response(FALSE, 200, FALSE, TRUE, JList(s)),
      Response(FALSE, 200, FALSE, TRUE, JDict([history |-> JList(s)])) }

\* Failures and payloads of any other shape.
MalformedResponses ==
    { Response(TRUE, 0, TRUE, FALSE, JNull),
      Response(FALSE, 500, FALSE, TRUE, JList(<<>>)),
      Response(FALSE, 200, TRUE, FALSE, JNull),
      Response(FALSE, 200, FALSE, FALSE, JNull),
      Response(FALSE, 200, FALSE, TRUE, JNum),
      Response(FALSE, 200, FALSE, TRUE, JDict([error |-> JStr("no session")])),
      Response(FALSE, 200, FALSE, TRUE, JDict([history |-> JNull])),
      Response(FALSE, 200, FALSE, TRUE, JList(<<JNum>>)) }

Responses(s) == FaithfulResponses(s) \cup MalformedResponses

\* ------------------------------------------------------------ pure helpers

\* parse_worker_history: a list is returned as it is, a dict gives whatever
\* it holds under "history" ([] when the key is missing), anything else [].
parse_worker_history(data) ==
    IF IsList(data) THEN data
    ELSE IF IsDict(data) THEN Get(data, "history", JList(<<>>))
    ELSE JList(<<>>)

\* OrchestratorFetch that lets a failed fetch through as no history at all.
OrchestratorFetchStrict(resp) ==
    IF resp.exc THEN JNull
    ELSE IF resp.status = 200
         THEN IF resp.valid THEN parse_worker_history(resp.data)
              ELSE JNull
         ELSE JNull

\* raw_history of generate_ai_response once its step 1 is over.
OrchestratorFetch(resp) ==
    IF resp.exc THEN JList(<<>>)
    ELSE IF resp.status = 200
         THEN IF resp.valid THEN parse_worker_history(resp.data)
              ELSE JList(<<>>)
         ELSE JList(<<>>)

\* `for msg in raw_history` with msg.get(...) in its body runs to its end
\* only over a list of dicts: iterating None or a number raises TypeError,
\* and .get on an item that is no dict raises AttributeError.
Formattable(raw) ==
    /\ IsList(raw)
    /\ \A i \in 1..Len(raw.items) : IsDict(raw.items[i])

\* One types.Content: its role and the text of its single part.
Turn(role, text) == [role |-> role, text |-> text]

\* GeminiRole taking only "assistant" for a model turn.
GeminiRoleAssistantOnly(msg) ==
    IF Get(msg, "role", JNull) = JStr("assistant") THEN "model" ELSE "user"

GeminiRole(msg) ==
    IF Get(msg, "role", JNull) \in {JStr("assistant"), JStr("model")}
    THEN "model" ELSE "user"

\* gemini_contents: one turn per record, then the current message.
GeminiContents(raw, user_content) ==
    [i \in 1..Len(raw.items) |->
        Turn(GeminiRole(raw.items[i]), Get(raw.items[i], "content", JStr("")))]
    \o <<Turn("user", JStr(user_content))>>

\* The history websocket_endpoint replays; JNull stands for "no replay"
\* (the request raised, the status is not 200, the body is blank or is not
\* JSON: the last is caught by the handler's except).
ConnectFetch(resp) ==
    IF resp.exc THEN JNull
    ELSE IF resp.status = 200 /\ ~resp.blank
         THEN IF resp.valid THEN parse_worker_history(resp.data) ELSE JNull
         ELSE JNull

\* ----------------------------------------------------------------- events

UserEvent(content) == [role |-> "user", content |-> content]
StreamEvent(text) == [role |-> "assistant", chunk |-> text, type |-> "stream"]
StreamEnd == [type |-> "stream_end"]
ClearEvent == [type |-> "clear"]
FullEvent(msg) ==
    [role |-> Get(msg, "role", JNull), content |-> Get(msg, "content", JNull),
     type |-> "full"]
ErrorText(e) == " [" \o "Error generating response: " \o e \o "]"

HasType(ev, t) == "type" \in DOMAIN ev /\ ev.type = t

\* ------------------------------------------------------------------ state

VARIABLES
    pc,                 \* where each coroutine stands
    active_connections, \* manager.active_connections, a list
    sock,               \* per websocket: "open", "closed" (the client left) or
                        \*   "stalled" (the client reads no more: a send to it
                        \*   never completes)
    inbox,              \* per websocket: what its client has received
    store,              \* the history the external store holds
    bq,                 \* per process: connections its broadcast has yet to send to
    bid,                \* per process: number of its current (last) broadcast call
    ret,                \* per process: where it goes on when its broadcast returns
    bfail,              \* per process: connections whose send raised in that call
    blog,               \* every broadcast call so far: caller, message, snapshot
    posts,              \* every POST /set so far: caller, body, broadcasts before it
    user_content,       \* per /chat request
    raw_history,        \* per generation
    gemini_contents,    \* per generation: what the backend is called with
    full_response,      \* per generation
    emitted,            \* per generation: texts of the chunks the backend yielded
    raised,             \* per generation: the backend raised
    served,             \* per fetch: "none", "faithful" (then fetched holds the
    fetched,            \*   history the store served), "failed" (no JSON body
                        \*   with status 200) or "malformed" (any other JSON)
    history,            \* per websocket: history of websocket_endpoint
    rq,                 \* per websocket: records its replay loop has yet to visit
    deleted,            \* per /reset request: how its DELETE went ("none" before)
    faults              \* failures of the environment so far

vars == <<pc, active_connections, sock, inbox, store, bq, bid, ret, bfail, blog,
          posts, user_content, raw_history, gemini_contents, full_response,
          emitted, raised, served, fetched, history, rq, deleted, faults>>

bcastVars == <<bq, bid, ret, bfail, blog>>
genVars == <<raw_history, gemini_contents, full_response, emitted, raised>>
wsVars == <<history, rq>>
fetchVars == <<served, fetched>>
resetVars == <<deleted>>

\* The service has started, over a store that holds one of `stores`.
Started(stores) ==
    /\ pc = [p \in Proc |-> IF p \in Conn THEN "new" ELSE "idle"]
    /\ active_connections = <<>>
    /\ sock = [c \in Conn |-> "open"]
    /\ inbox = [c \in Conn |-> <<>>]
    /\ store \in stores
    /\ bq = [p \in Proc |-> <<>>]
    /\ bid = [p \in Proc |-> 0]
    /\ ret = [p \in Proc |-> "idle"]
    /\ bfail = [p \in Proc |-> {}]
    /\ blog = <<>>
    /\ posts = <<>>
    /\ user_content = [r \in Req |-> ""]
    /\ raw_history = [r \in Req |-> JList(<<>>)]
    /\ gemini_contents = [r \in Req |-> <<>>]
    /\ full_response = [r \in Req |-> ""]
    /\ emitted = [r \in Req |-> <<>>]
    /\ raised = [r \in Req |-> FALSE]
    /\ served = [p \in Req \cup Conn |-> "none"]
    /\ fetched = [p \in Req \cup Conn |-> <<>>]
    /\ history = [c \in Conn |-> JNull]
    /\ rq = [c \in Conn |-> <<>>]
    /\ deleted = [d \in Rst |-> "none"]
    /\ faults = 0

Init == Started(InitialStores)

\* The environment fails n more times, within its budget.
Fault(n) == faults + n <= MaxFaults /\ faults' = faults + n

\* ------------------------------------------------------- ConnectionManager

\* self.active_connections[:]
Snapshot(conns) == conns

\* list.remove(x) after `if x in list`
Remove(conns, c) == SelectSeq(conns, LAMBDA x : x # c)

\* broadcast(message), up to its first send: the snapshot is taken when the
\* call starts.  With nobody in the snapshot the call returns at once.
StartBroadcast(p, message, after) ==
    LET snap == Snapshot(active_connections) IN
    /\ blog' = Append(blog, [by |-> p, msg |-> message, snap |-> snap])
    /\ bid' = [bid EXCEPT ![p] = Len(blog) + 1]
    /\ bq' = [bq EXCEPT ![p] = snap]
    /\ bfail' = [bfail EXCEPT ![p] = {}]
    /\ ret' = [ret EXCEPT ![p] = after]
    /\ pc' = [pc EXCEPT ![p] = IF snap = <<>> THEN after ELSE "bcast"]

\* websocket.send_text on c: delivered if its client is there.
Deliver(c, entry) == inbox' = [inbox EXCEPT ![c] = Append(@, entry)]

\* BroadcastSend without its try/except: a send that raises ends the loop.
BroadcastSendAbort(p) ==
    /\ pc[p] = "bcast"
    /\ sock[Head(bq[p])] # "stalled"
    /\ LET c == Head(bq[p]) IN
       IF sock[c] = "open"
       THEN /\ Deliver(c, [ev |-> blog[bid[p]].msg, id |-> bid[p], by |-> p])
            /\ bq' = [bq EXCEPT ![p] = Tail(@)]
            /\ pc' = [pc EXCEPT ![p] = IF Tail(bq[p]) = <<>> THEN ret[p] ELSE "bcast"]
            /\ UNCHANGED bfail
       ELSE /\ bfail' = [bfail EXCEPT ![p] = @ \cup {c}]
            /\ bq' = [bq EXCEPT ![p] = <<>>]
            /\ pc' = [pc EXCEPT ![p] = ret[p]]
            /\ UNCHANGED inbox
    /\ UNCHANGED <<active_connections, sock, store, bid, ret, blog, posts,
                   user_content, genVars, fetchVars, wsVars, resetVars, faults>>

\* BroadcastSend iterating self.active_connections itself, not a copy: the
\* k-th turn of the loop takes the k-th connection of the list as it is by
\* then, and the loop is over when the list has no k-th connection.
BroadcastSendLive(p) ==
    /\ pc[p] = "bcast"
    /\ sock[Head(bq[p])] # "stalled"
    /\ LET k == Len(blog[bid[p]].snap) - Len(bq[p]) + 1 IN
       IF k > Len(active_connections)
       THEN /\ bq' = [bq EXCEPT ![p] = <<>>]
            /\ pc' = [pc EXCEPT ![p] = ret[p]]
            /\ UNCHANGED <<inbox, bfail>>
       ELSE LET c == active_connections[k] IN
            /\ IF sock[c] = "open"
               THEN /\ Deliver(c, [ev |-> blog[bid[p]].msg, id |-> bid[p], by |-> p])
                    /\ UNCHANGED bfail
               ELSE /\ bfail' = [bfail EXCEPT ![p] = @ \cup {c}]
                    /\ UNCHANGED inbox
            /\ bq' = [bq EXCEPT ![p] = Tail(@)]
            /\ pc' = [pc EXCEPT ![p] = IF Tail(bq[p]) = <<>> THEN ret[p] ELSE "bcast"]
    /\ UNCHANGED <<active_connections, sock, store, bid, ret, blog, posts,
                   user_content, genVars, fetchVars, wsVars, resetVars, faults>>

\* One turn of broadcast's loop: await connection.send_text(encoded), whose
\* exception is swallowed by `except: pass`; the loop goes on either way and
\* nothing is removed from active_connections.  The await has no timeout:
\* the turn ends when the send completes or raises, not before.
BroadcastSend(p) ==
    /\ pc[p] = "bcast"
    /\ sock[Head(bq[p])] # "stalled"
    /\ LET c == Head(bq[p]) IN
       IF sock[c] = "open"
       THEN /\ Deliver(c, [ev |-> blog[bid[p]].msg, id |-> bid[p], by |-> p])
            /\ UNCHANGED bfail
       ELSE /\ bfail' = [bfail EXCEPT ![p] = @ \cup {c}]
            /\ UNCHANGED inbox
    /\ bq' = [bq EXCEPT ![p] = Tail(@)]
    /\ pc' = [pc EXCEPT ![p] = IF Tail(bq[p]) = <<>> THEN ret[p] ELSE "bcast"]
    /\ UNCHANGED <<active_connections, sock, store, bid, ret, blog, posts,
                   user_content, genVars, fetchVars, wsVars, resetVars, faults>>

\* ------------------------------------------------------------ save_message

\* The POST either reaches the store, which appends the record, or raises
\* (transport error, timeout), which save_message prints and swallows.
PostOutcomes == {"stored", "raised"}

StoreAfterPost(s, outcome, role, content) ==
    IF outcome = "stored" THEN Append(s, Record(role, content)) ELSE s

save_message(p, outcome, role, content) ==
    /\ Fault(IF outcome = "raised" THEN 1 ELSE 0)
    /\ posts' = Append(posts, [by |-> p, role |-> role, content |-> content,
                               outcome |-> outcome, at |-> Len(blog)])
    /\ store' = StoreAfterPost(store, outcome, role, content)

\* ----------------------------------------------------- POST /chat (submit)

\* Bodies of POST /chat: with a content, and without one.
Payloads == { JDict([role |-> JStr("user"), content |-> JStr("hi")]),
              JDict([role |-> JStr("user")]) }

\* Requests and connections are named in their order of arrival.
Arrived(p, q) == (p = "r2" /\ q = "r1") \/ (p = "c2" /\ q = "c1")
InOrder(p) == \A q \in Proc : Arrived(p, q) => pc[q] \notin {"idle", "new"}

\* chat_endpoint without its broadcast.
SubmitNoEcho(r) ==
    /\ pc[r] = "idle"
    /\ InOrder(r)
    /\ \E payload \in Payloads :
         user_content' = [user_content EXCEPT ![r] = Get(payload, "content", JStr("")).s]
    /\ pc' = [pc EXCEPT ![r] = "save_user"]
    /\ UNCHANGED <<active_connections, sock, inbox, store, bcastVars, posts,
                   genVars, fetchVars, wsVars, resetVars, faults>>

\* chat_endpoint up to the first send of its broadcast.  The two background
\* tasks it adds run after the handler has returned, in the order added.
Submit(r) ==
    /\ pc[r] = "idle"
    /\ InOrder(r)
    /\ \E payload \in Payloads :
         LET content == Get(payload, "content", JStr("")).s IN
         /\ user_content' = [user_content EXCEPT ![r] = content]
         /\ StartBroadcast(r, UserEvent(content), "save_user")
    /\ UNCHANGED <<active_connections, sock, inbox, store, posts, genVars,
                   fetchVars, wsVars, resetVars, faults>>

\* Background task 1: save_message("user", user_content).
SaveUser(r) ==
    /\ pc[r] = "save_user"
    /\ \E outcome \in PostOutcomes :
         save_message(r, outcome, "user", user_content[r])
    /\ pc' = [pc EXCEPT ![r] = "fetch"]
    /\ UNCHANGED <<active_connections, sock, inbox, bcastVars, user_content,
                   genVars, fetchVars, wsVars, resetVars>>

\* ---------------------------------------------------- generate_ai_response

\* The fetch failed: the request raised, the status is not 200, or the body
\* is not JSON.
Failed(resp) == resp.exc \/ resp.status # 200 \/ ~resp.valid

Served(resp, s) ==
    IF resp \in FaithfulResponses(s) THEN "faithful"
    ELSE IF Failed(resp) THEN "failed"
    ELSE "malformed"
FetchFault(resp, s) == Fault(IF resp \in FaithfulResponses(s) THEN 0 ELSE 1)

\* Steps 1 and 2: the GET, the parse and the formatting loop, which is
\* outside every try: an exception there ends the task.
GenFetch(r) ==
    /\ pc[r] = "fetch"
    /\ \E resp \in Responses(store) :
         LET raw == OrchestratorFetch(resp) IN
         /\ FetchFault(resp, store)
         /\ raw_history' = [raw_history EXCEPT ![r] = raw]
         /\ served' = [served EXCEPT ![r] = Served(resp, store)]
         /\ fetched' = [fetched EXCEPT ![r] = store]
         /\ IF Formattable(raw)
            THEN /\ gemini_contents' = [gemini_contents EXCEPT ![r] =
                                           GeminiContents(raw, user_content[r])]
                 /\ pc' = [pc EXCEPT ![r] = "stream"]
            ELSE /\ pc' = [pc EXCEPT ![r] = "crashed"]
                 /\ UNCHANGED gemini_contents
    /\ UNCHANGED <<active_connections, sock, inbox, store, bcastVars, posts,
                   user_content, full_response, emitted, raised, wsVars, resetVars>>

\* GenYield broadcasting the accumulator instead of the chunk.
GenYieldAccumulator(r) ==
    /\ pc[r] = "stream"
    /\ Len(emitted[r]) < MaxChunks
    /\ \E text \in ChunkTexts(r, Len(emitted[r]) + 1) :
         /\ emitted' = [emitted EXCEPT ![r] = Append(@, text)]
         /\ IF text # ""
            THEN /\ full_response' = [full_response EXCEPT ![r] = @ \o text]
                 /\ StartBroadcast(r, StreamEvent(full_response[r] \o text), "stream")
            ELSE UNCHANGED <<full_response, pc, bcastVars>>
    /\ UNCHANGED <<active_connections, sock, inbox, store, posts, user_content,
                   raw_history, gemini_contents, raised, fetchVars, wsVars,
                   resetVars, faults>>

\* GenYield over one accumulator that all the generations share.
GenYieldShared(r) ==
    /\ pc[r] = "stream"
    /\ Len(emitted[r]) < MaxChunks
    /\ \E text \in ChunkTexts(r, Len(emitted[r]) + 1) :
         /\ emitted' = [emitted EXCEPT ![r] = Append(@, text)]
         /\ IF text # ""
            THEN /\ full_response' = [q \in Req |-> full_response[q] \o text]
                 /\ StartBroadcast(r, StreamEvent(text), "stream")
            ELSE UNCHANGED <<full_response, pc, bcastVars>>
    /\ UNCHANGED <<active_connections, sock, inbox, store, posts, user_content,
                   raw_history, gemini_contents, raised, fetchVars, wsVars,
                   resetVars, faults>>

\* Step 3, one turn of `for chunk in response_stream`: the backend yields a
\* chunk.  One with a text is added to full_response and broadcast as a
\* fragment; one without is skipped.
GenYield(r) ==
    /\ pc[r] = "stream"
    /\ Len(emitted[r]) < MaxChunks
    /\ \E text \in ChunkTexts(r, Len(emitted[r]) + 1) :
         /\ emitted' = [emitted EXCEPT ![r] = Append(@, text)]
         /\ IF text # ""
            THEN /\ full_response' = [full_response EXCEPT ![r] = @ \o text]
                 /\ StartBroadcast(r, StreamEvent(text), "stream")
            ELSE UNCHANGED <<full_response, pc, bcastVars>>
    /\ UNCHANGED <<active_connections, sock, inbox, store, posts, user_content,
                   raw_history, gemini_contents, raised, fetchVars, wsVars,
                   resetVars, faults>>

\* The backend ends the stream: on to save_message.
GenEnd(r) ==
    /\ pc[r] = "stream"
    /\ pc' = [pc EXCEPT ![r] = "save_asst"]
    /\ UNCHANGED <<active_connections, sock, inbox, store, bcastVars, posts,
                   user_content, genVars, fetchVars, wsVars, resetVars, faults>>

\* GenRaise whose except branch saves what was accumulated.
GenRaisePersist(r) ==
    /\ pc[r] = "stream"
    /\ Fault(1)
    /\ raised' = [raised EXCEPT ![r] = TRUE]
    /\ pc' = [pc EXCEPT ![r] = "save_asst"]
    /\ UNCHANGED <<active_connections, sock, inbox, store, bcastVars, posts,
                   user_content, raw_history, gemini_contents, full_response,
                   emitted, fetchVars, wsVars, resetVars>>

\* The backend raises (in the call or while it is iterated): the except
\* branch broadcasts the error as a fragment.
GenRaise(r) ==
    /\ pc[r] = "stream"
    /\ Fault(1)
    /\ raised' = [raised EXCEPT ![r] = TRUE]
    /\ StartBroadcast(r, StreamEvent(ErrorText(BackendError)), "err_end")
    /\ UNCHANGED <<active_connections, sock, inbox, store, posts, user_content,
                   raw_history, gemini_contents, full_response, emitted,
                   fetchVars, wsVars, resetVars>>

\* GenSave with its two calls in the other order: stream_end is broadcast
\* first, the POST follows.
GenSaveAfterEnd(r) ==
    /\ pc[r] = "save_asst"
    /\ \E outcome \in PostOutcomes :
         /\ Fault(IF outcome = "raised" THEN 1 ELSE 0)
         /\ posts' = Append(posts, [by |-> r, role |-> "assistant",
                                    content |-> full_response[r],
                                    outcome |-> outcome, at |-> Len(blog) + 1])
         /\ store' = StoreAfterPost(store, outcome, "assistant", full_response[r])
    /\ StartBroadcast(r, StreamEnd, "done")
    /\ UNCHANGED <<active_connections, sock, inbox, user_content, genVars,
                   fetchVars, wsVars, resetVars>>

\* The stream is over: save_message("assistant", full_response), then the
\* stream_end broadcast.
GenSave(r) ==
    /\ pc[r] = "save_asst"
    /\ \E outcome \in PostOutcomes :
         save_message(r, outcome, "assistant", full_response[r])
    /\ StartBroadcast(r, StreamEnd, "done")
    /\ UNCHANGED <<active_connections, sock, inbox, user_content, genVars,
                   fetchVars, wsVars, resetVars>>

\* The except branch, after its error fragment: the stream_end broadcast.
GenErrEnd(r) ==
    /\ pc[r] = "err_end"
    /\ StartBroadcast(r, StreamEnd, "done")
    /\ UNCHANGED <<active_connections, sock, inbox, store, posts, user_content,
                   genVars, fetchVars, wsVars, resetVars, faults>>

\* ------------------------------------------------------------ DELETE /reset

\* The DELETE clears the store, is refused by it (a status, which httpx does
\* not raise for), or raises, which skips the broadcast.
DeleteOutcomes == {"deleted", "refused", "raised"}

StoreAfterDelete(s, outcome) == IF outcome = "deleted" THEN <<>> ELSE s

\* reset_history that also cancels the generations that are streaming.
ResetCancels(d) ==
    /\ pc[d] = "idle"
    /\ \E outcome \in DeleteOutcomes :
         /\ Fault(IF outcome = "deleted" THEN 0 ELSE 1)
         /\ store' = StoreAfterDelete(store, outcome)
         /\ deleted' = [deleted EXCEPT ![d] = outcome]
    /\ pc' = [p \in Proc |->
                IF p = d THEN "done"
                ELSE IF p \in Req /\ pc[p] \in {"stream", "save_asst", "err_end"}
                     THEN "cancelled"
                     ELSE pc[p]]
    /\ UNCHANGED <<active_connections, sock, inbox, bcastVars, posts,
                   user_content, genVars, fetchVars, wsVars, faults>>

\* reset_history without its broadcast.
ResetNoBroadcast(d) ==
    /\ pc[d] = "idle"
    /\ \E outcome \in DeleteOutcomes :
         /\ Fault(IF outcome = "deleted" THEN 0 ELSE 1)
         /\ store' = StoreAfterDelete(store, outcome)
         /\ deleted' = [deleted EXCEPT ![d] = outcome]
    /\ pc' = [pc EXCEPT ![d] = "done"]
    /\ UNCHANGED <<active_connections, sock, inbox, bcastVars, posts,
                   user_content, genVars, fetchVars, wsVars, faults>>

reset_history(d) ==
    /\ pc[d] = "idle"
    /\ \E outcome \in DeleteOutcomes :
         /\ Fault(IF outcome = "deleted" THEN 0 ELSE 1)
         /\ store' = StoreAfterDelete(store, outcome)
         /\ deleted' = [deleted EXCEPT ![d] = outcome]
         /\ IF outcome = "raised"
            THEN /\ pc' = [pc EXCEPT ![d] = "done"]
                 /\ UNCHANGED bcastVars
            ELSE StartBroadcast(d, ClearEvent, "done")
    /\ UNCHANGED <<active_connections, sock, inbox, posts, user_content,
                   genVars, fetchVars, wsVars>>

\* ----------------------------------------------------------- websocket /ws

\* Connect over a manager that keeps the events it has broadcast and sends
\* them to a connection when it registers.
ConnectWithBacklog(c) ==
    /\ pc[c] = "new"
    /\ InOrder(c)
    /\ active_connections' = Append(active_connections, c)
    /\ inbox' = [inbox EXCEPT ![c] =
                    @ \o [i \in 1..Len(blog) |->
                            [ev |-> blog[i].msg, id |-> i, by |-> blog[i].by]]]
    /\ pc' = [pc EXCEPT ![c] = "sync"]
    /\ UNCHANGED <<sock, store, bcastVars, posts, user_content, genVars,
                   fetchVars, wsVars, resetVars, faults>>

\* manager.connect: accept, then register.
Connect(c) ==
    /\ pc[c] = "new"
    /\ InOrder(c)
    /\ active_connections' = Append(active_connections, c)
    /\ pc' = [pc EXCEPT ![c] = "sync"]
    /\ UNCHANGED <<sock, inbox, store, bcastVars, posts, user_content, genVars,
                   fetchVars, wsVars, resetVars, faults>>

\* The GET of the history sync and the start of its loop.  Iterating a
\* history that is no list raises, which the handler's except swallows.
WsFetch(c) ==
    /\ pc[c] = "sync"
    /\ \E resp \in Responses(store) :
         LET h == ConnectFetch(resp)
             todo == IF IsList(h) THEN h.items ELSE <<>> IN
         /\ FetchFault(resp, store)
         /\ history' = [history EXCEPT ![c] = h]
         /\ rq' = [rq EXCEPT ![c] = todo]
         /\ served' = [served EXCEPT ![c] = Served(resp, store)]
         /\ fetched' = [fetched EXCEPT ![c] = store]
         /\ pc' = [pc EXCEPT ![c] = IF todo = <<>> THEN "recv" ELSE "replay"]
    /\ UNCHANGED <<active_connections, sock, inbox, store, bcastVars, posts,
                   user_content, genVars, resetVars>>

\* WsReplay sending through the manager: to every registered connection.
WsReplayToAll(c) ==
    /\ pc[c] = "replay"
    /\ LET msg == Head(rq[c])
           rest == Tail(rq[c]) IN
       /\ IF IsDict(msg)
          THEN inbox' = [d \in Conn |->
                           IF \E k \in 1..Len(active_connections) : active_connections[k] = d
                           THEN Append(inbox[d], [ev |-> FullEvent(msg), id |-> 0, by |-> c])
                           ELSE inbox[d]]
          ELSE UNCHANGED inbox
       /\ rq' = [rq EXCEPT ![c] = rest]
       /\ pc' = [pc EXCEPT ![c] = IF rest = <<>> THEN "recv" ELSE "replay"]
    /\ UNCHANGED <<active_connections, sock, store, bcastVars, posts,
                   user_content, genVars, fetchVars, history, resetVars, faults>>

\* One turn of the replay loop: a dict is sent to this websocket as a "full"
\* event, anything else is passed over.  A send that raises ends the loop.
WsReplay(c) ==
    /\ pc[c] = "replay"
    /\ ~(IsDict(Head(rq[c])) /\ sock[c] = "stalled")
    /\ LET msg == Head(rq[c])
           rest == Tail(rq[c]) IN
       IF IsDict(msg) /\ sock[c] # "open"
       THEN /\ rq' = [rq EXCEPT ![c] = <<>>]
            /\ pc' = [pc EXCEPT ![c] = "recv"]
            /\ UNCHANGED inbox
       ELSE /\ IF IsDict(msg)
               THEN Deliver(c, [ev |-> FullEvent(msg), id |-> 0, by |-> c])
               ELSE UNCHANGED inbox
            /\ rq' = [rq EXCEPT ![c] = rest]
            /\ pc' = [pc EXCEPT ![c] = IF rest = <<>> THEN "recv" ELSE "replay"]
    /\ UNCHANGED <<active_connections, sock, store, bcastVars, posts,
                   user_content, genVars, fetchVars, history, resetVars, faults>>

\* The client goes away (the environment's step).
ClientClose(c) ==
    /\ pc[c] \notin {"new", "gone"}
    /\ sock[c] = "open"
    /\ Fault(1)
    /\ sock' = [sock EXCEPT ![c] = "closed"]
    /\ UNCHANGED <<pc, active_connections, inbox, store, bcastVars, posts,
                   user_content, genVars, fetchVars, wsVars, resetVars>>

\* The client stays connected but reads no more (the environment's step):
\* once the buffers between them are full, a send to it does not complete.
ClientStall(c) ==
    /\ pc[c] \notin {"new", "gone"}
    /\ sock[c] = "open"
    /\ Fault(1)
    /\ sock' = [sock EXCEPT ![c] = "stalled"]
    /\ UNCHANGED <<pc, active_connections, inbox, store, bcastVars, posts,
                   user_content, genVars, fetchVars, wsVars, resetVars>>

\* receive_text raises WebSocketDisconnect: manager.disconnect(websocket).
WsDisconnect(c) ==
    /\ pc[c] = "recv"
    /\ sock[c] = "closed"
    /\ active_connections' = Remove(active_connections, c)
    /\ pc' = [pc EXCEPT ![c] = "gone"]
    /\ UNCHANGED <<sock, inbox, store, bcastVars, posts, user_content, genVars,
                   fetchVars, wsVars, resetVars, faults>>

\* --------------------------------------------------------- specifications

\* The steps of a /chat request: its handler, then its two background tasks.
Chat(r) ==
    \/ Submit(r)
    \/ SaveUser(r)
    \/ GenFetch(r)
    \/ GenYield(r)
    \/ GenEnd(r)
    \/ GenRaise(r)
    \/ GenSave(r)
    \/ GenErrEnd(r)
    \/ BroadcastSend(r)

\* The steps of generate_ai_response, those of its broadcasts apart.
Orchestrate(r) ==
    \/ GenFetch(r)
    \/ GenYield(r)
    \/ GenEnd(r)
    \/ GenRaise(r)
    \/ GenSave(r)
    \/ GenErrEnd(r)

\* The steps of a /reset request.
Reset(d) ==
    \/ reset_history(d)
    \/ BroadcastSend(d)

\* The steps of websocket_endpoint from a new connection on.
Join(c) ==
    \/ Connect(c)
    \/ WsFetch(c)
    \/ WsReplay(c)

\* The end of a connection.
Leave(c) ==
    \/ ClientClose(c)
    \/ WsDisconnect(c)

\* Cold start: a request, and a viewer that connects and may leave.
Next ==
    \/ Chat("r1")
    \/ Join("c1")
    \/ Leave("c1")

Spec == Init /\ [][Next]_vars

\* The state after the viewers of `live`, in their order of arrival, have
\* connected to a service that did nothing else and have been replayed the
\* stored history.
\* SpecAll reaches it from Init (Connect, WsFetch with a faithful
\* answer, WsReplay for every record).
Connected(live) ==
    /\ store \in InitialStores
    /\ pc = [p \in Proc |-> IF p \in live THEN "recv"
                             ELSE IF p \in Conn THEN "new" ELSE "idle"]
    /\ active_connections = SelectSeq(<<"c1", "c2">>, LAMBDA c : c \in live)
    /\ sock = [c \in Conn |-> "open"]
    /\ inbox = [c \in Conn |->
                 IF c \in live
                 THEN [i \in 1..Len(store) |->
                         [ev |-> FullEvent(store[i]), id |-> 0, by |-> c]]
                 ELSE <<>>]
    /\ bq = [p \in Proc |-> <<>>]
    /\ bid = [p \in Proc |-> 0]
    /\ ret = [p \in Proc |-> "idle"]
    /\ bfail = [p \in Proc |-> {}]
    /\ blog = <<>>
    /\ posts = <<>>
    /\ user_content = [r \in Req |-> ""]
    /\ raw_history = [r \in Req |-> JList(<<>>)]
    /\ gemini_contents = [r \in Req |-> <<>>]
    /\ full_response = [r \in Req |-> ""]
    /\ emitted = [r \in Req |-> <<>>]
    /\ raised = [r \in Req |-> FALSE]
    /\ served = [p \in Req \cup Conn |-> IF p \in live THEN "faithful" ELSE "none"]
    /\ fetched = [p \in Req \cup Conn |-> IF p \in live THEN store ELSE <<>>]
    /\ history = [c \in Conn |-> IF c \in live THEN JList(store) ELSE JNull]
    /\ rq = [c \in Conn |-> <<>>]
    /\ deleted = [d \in Rst |-> "none"]
    /\ faults = 0

InitLive == Connected({"c1", "c2"})

\* Two viewers are connected: a request and a reset, while viewers leave.
NextLive ==
    \/ Chat("r1")
    \/ Reset("d1")
    \/ \E c \in Conn : Leave(c)

SpecLive == InitLive /\ [][NextLive]_vars

\* One viewer is connected and a second one connects, while a reset runs and
\* viewers leave.
InitJoin == Connected({"c1"})

NextJoin ==
    \/ Join("c2")
    \/ Reset("d1")
    \/ \E c \in Conn : Leave(c)

SpecJoin == InitJoin /\ [][NextJoin]_vars

\* A request over a store that holds any history, with no viewer: every
\* broadcast returns without a send.
InitContext == Started(ContextStores)

NextContext ==
    \/ Submit("r1")
    \/ SaveUser("r1")
    \/ Orchestrate("r1")

SpecContext == InitContext /\ [][NextContext]_vars

\* Two viewers are connected and one of them may stop reading, while a
\* request runs.  The event loop runs every coroutine that can go on.
NextSlow ==
    \/ Chat("r1")
    \/ \E c \in Conn : ClientStall(c)

SpecSlow == InitLive /\ [][NextSlow]_vars /\ WF_vars(Chat("r1"))

\* One viewer is connected: a request runs while a reset is made and the
\* viewer leaves.  The event loop runs the request's handler and tasks
\* whenever they can go on; sends complete or raise, and the backend's stream
\* ends or raises.
NextSolo ==
    \/ Chat("r1")
    \/ Reset("d1")
    \/ Leave("c1")

SpecSolo == InitJoin /\ [][NextSolo]_vars /\ WF_vars(Chat("r1"))

\* The state after one viewer has connected and two requests, with content
\* "hi", have one after the other been echoed to it and saved, and their
\* generations have fetched the history and called the backend: the second
\* was submitted after the backend call of the first, and neither stream has
\* yielded anything yet.
\* SpecAll reaches it from Init (Connect, WsFetch, WsReplay for every
\* record; then for r1 and after it for r2: Submit, BroadcastSend, SaveUser,
\* GenFetch).
InitPair ==
    \E s0 \in InitialStores :
        LET s1 == Append(s0, Record("user", "hi"))
            s2 == Append(s1, Record("user", "hi")) IN
        /\ store = s2
        /\ pc = [p \in Proc |-> IF p = "c1" THEN "recv"
                                 ELSE IF p \in Req THEN "stream"
                                 ELSE IF p \in Conn THEN "new" ELSE "idle"]
        /\ active_connections = <<"c1">>
        /\ sock = [c \in Conn |-> "open"]
        /\ inbox = [c \in Conn |->
                     IF c = "c1"
                     THEN [i \in 1..Len(s0) |->
                             [ev |-> FullEvent(s0[i]), id |-> 0, by |-> c]]
                          \o <<[ev |-> UserEvent("hi"), id |-> 1, by |-> "r1"],
                               [ev |-> UserEvent("hi"), id |-> 2, by |-> "r2"]>>
                     ELSE <<>>]
        /\ bq = [p \in Proc |-> <<>>]
        /\ bid = [p \in Proc |-> IF p = "r1" THEN 1 ELSE IF p = "r2" THEN 2 ELSE 0]
        /\ ret = [p \in Proc |-> IF p \in Req THEN "save_user" ELSE "idle"]
        /\ bfail = [p \in Proc |-> {}]
        /\ blog = <<[by |-> "r1", msg |-> UserEvent("hi"), snap |-> <<"c1">>],
                     [by |-> "r2", msg |-> UserEvent("hi"), snap |-> <<"c1">>]>>
        /\ posts = <<[by |-> "r1", role |-> "user", content |-> "hi",
                      outcome |-> "stored", at |-> 1],
                     [by |-> "r2", role |-> "user", content |-> "hi",
                      outcome |-> "stored", at |-> 2]>>
        /\ user_content = [r \in Req |-> "hi"]
        /\ raw_history = [r \in Req |-> IF r = "r1" THEN JList(s1) ELSE JList(s2)]
        /\ gemini_contents =
             [r \in Req |-> GeminiContents(raw_history[r], "hi")]
        /\ full_response = [r \in Req |-> ""]
        /\ emitted = [r \in Req |-> <<>>]
        /\ raised = [r \in Req |-> FALSE]
        /\ served = [p \in Req \cup Conn |-> IF p = "c2" THEN "none" ELSE "faithful"]
        /\ fetched = [p \in Req \cup Conn |->
                       IF p = "c1" THEN s0 ELSE IF p = "r1" THEN s1
                       ELSE IF p = "r2" THEN s2 ELSE <<>>]
        /\ history = [c \in Conn |-> IF c = "c1" THEN JList(s0) ELSE JNull]
        /\ rq = [c \in Conn |-> <<>>]
        /\ deleted = [d \in Rst |-> "none"]
        /\ faults = 0

\* Step 3 of generate_ai_response, with the sends of its broadcasts.
Streaming(r) ==
    \/ GenYield(r)
    \/ GenEnd(r)
    \/ GenRaise(r)
    \/ GenSave(r)
    \/ GenErrEnd(r)
    \/ BroadcastSend(r)

\* One viewer is connected while two generations stream.
NextPair ==
    \/ Streaming("r1")
    \/ Streaming("r2")

SpecPair == InitPair /\ [][NextPair]_vars

\* Every process: the whole service.
NextAll ==
    \/ \E r \in Req : Chat(r)
    \/ \E d \in Rst : Reset(d)
    \/ \E c \in Conn : Join(c) \/ Leave(c) \/ ClientStall(c)

SpecAll == Init /\ [][NextAll]_vars

\* ------------------------------------------------------------------ claims

Range(seq) == {seq[i] : i \in 1..Len(seq)}
Max(S) == CHOOSE x \in S : \A y \in S : y <= x

\* The numbers of the broadcast calls p has made.
CallsBy(p) == {i \in 1..Len(blog) : blog[i].by = p}

\* A broadcast call that has returned.
Completed(i) == ~(pc[blog[i].by] = "bcast" /\ bid[blog[i].by] = i)

\* How many times c has received the event of broadcast call i.
Count(c, i) == Cardinality({k \in 1..Len(inbox[c]) : inbox[c][k].id = i})

\* The events generate_ai_response has broadcast for request r, in call order.
GenEvents(r) ==
    LET es == SelectSeq(blog, LAMBDA e : e.by = r /\ "type" \in DOMAIN e.msg)
    IN [i \in 1..Len(es) |-> es[i].msg]

\* The events of r's generation that c has received, in arrival order.
ReceivedFrom(c, r) ==
    LET es == SelectSeq(inbox[c], LAMBDA e : e.by = r /\ "type" \in DOMAIN e.ev)
    IN [i \in 1..Len(es) |-> es[i].ev]

\* The texts the backend has produced for r, in order.
Fragments(r) == SelectSeq(emitted[r], LAMBDA t : t # "")

\* What a generation that has returned must have put on the wire.
Expected(r) ==
    [i \in 1..Len(Fragments(r)) |-> StreamEvent(Fragments(r)[i])]
    \o (IF raised[r] THEN <<StreamEvent(ErrorText(BackendError))>> ELSE <<>>)
    \o <<StreamEnd>>

\* C1: however a run of generate_ai_response ends, the last event it has
\* broadcast is stream_end.
C1_EndsWithStreamEnd ==
    \A r \in Req :
        pc[r] \in {"done", "crashed"} =>
            /\ CallsBy(r) # {}
            /\ blog[Max(CallsBy(r))].msg = StreamEnd

\* Viewer c was in the snapshot of every broadcast of request r and is
\* still there.
Stayed(c, r) ==
    /\ sock[c] = "open"
    /\ \A i \in CallsBy(r) : c \in Range(blog[i].snap)

\* C2: a viewer that stays connected for a whole generation has received,
\* of that generation, the fragments the backend produced, in order, then
\* one stream_end, and nothing else.
C2_ViewerGetsFragmentsThenEnd ==
    \A r \in Req : \A c \in Conn :
        (pc[r] = "done" /\ Stayed(c, r)) => ReceivedFrom(c, r) = Expected(r)

C2_Witness ==
    /\ pc["r1"] = "done"
    /\ ~raised["r1"]
    /\ Len(Fragments("r1")) = 2
    /\ Stayed("c1", "r1")
    /\ Stayed("c2", "r1")
    /\ Len(ReceivedFrom("c2", "r1")) = 3

\* C3: a generation whose backend raised after k fragments has broadcast
\* those k fragments, the error fragment and stream_end, in this order, and
\* has posted no assistant message.
C3_BackendErrorPath ==
    \A r \in Req :
        (pc[r] = "done" /\ raised[r]) =>
            /\ GenEvents(r) = Expected(r)
            /\ \A k \in 1..Len(posts) :
                 ~(posts[k].by = r /\ posts[k].role = "assistant")

C3_Witness ==
    /\ pc["r1"] = "done"
    /\ raised["r1"]
    /\ emitted["r1"] = <<"Hel", "lo">>
    /\ Len(GenEvents("r1")) = 4

\* The user messages request r has posted to the store.
UserPosts(r) == SelectSeq(posts, LAMBDA q : q.by = r /\ q.role = "user")

Echoed(r) ==
    /\ CallsBy(r) # {}
    /\ LET u == CHOOSE i \in CallsBy(r) : \A j \in CallsBy(r) : i <= j IN
       /\ blog[u].msg = UserEvent(user_content[r])
       /\ Completed(u)
       /\ \A j \in CallsBy(r) : j # u => "type" \in DOMAIN blog[j].msg
       /\ \A c \in Range(blog[u].snap) : sock[c] = "open" => Count(c, u) = 1

InHandler(r) == pc[r] = "idle" \/ (pc[r] = "bcast" /\ ret[r] = "save_user")

\* C4: once chat_endpoint has returned, hence before the generation starts,
\* its user-message broadcast is the first call of the request, has returned,
\* and has reached every viewer of its snapshot that is still there; and the
\* request posts the user message exactly once, with its content.
C4_SubmitEchoesThenSaves ==
    \A r \in Req :
        /\ ~InHandler(r) => Echoed(r)
        /\ InHandler(r) => GenEvents(r) = <<>> /\ served[r] = "none"
        /\ Len(UserPosts(r)) =
             (IF InHandler(r) \/ pc[r] = "save_user" THEN 0 ELSE 1)
        /\ \A k \in 1..Len(UserPosts(r)) :
             UserPosts(r)[k].content = user_content[r]

C4_Witness ==
    /\ pc["r1"] = "stream"
    /\ user_content["r1"] = "hi"
    /\ Len(UserPosts("r1")) = 1
    /\ \E k \in 1..Len(inbox["c1"]) : inbox["c1"][k].ev = UserEvent("hi")

\* The "full" events c has received, in arrival order.
Fulls(c) ==
    LET es == SelectSeq(inbox[c], LAMBDA e : HasType(e.ev, "full"))
    IN [i \in 1..Len(es) |-> es[i].ev]

\* C5: a viewer that connects is sent the stored history, one "full" event
\* per record, in stored order; these events go to nobody else, and the
\* connect handler broadcasts nothing.
C5_ReplayToNewViewerOnly ==
    /\ \A c \in Conn : \A k \in 1..Len(inbox[c]) :
         HasType(inbox[c][k].ev, "full") => inbox[c][k].by = c
    /\ \A i \in 1..Len(blog) : blog[i].by \notin Conn
    /\ \A c \in Conn :
         (pc[c] = "recv" /\ served[c] = "faithful" /\ sock[c] = "open") =>
            Fulls(c) = [i \in 1..Len(fetched[c]) |-> FullEvent(fetched[c][i])]

C5_Witness ==
    /\ pc["c2"] = "recv"
    /\ served["c2"] = "faithful"
    /\ sock["c1"] = "open" /\ sock["c2"] = "open"
    /\ active_connections = <<"c1", "c2">>
    /\ Fulls("c2") = <<FullEvent(Record("user", "a")), FullEvent(Record("assistant", "b"))>>
    /\ Len(inbox["c1"]) = 2

\* The records the store has accepted since broadcast call i was made.
PostedSince(i) ==
    LET qs == SelectSeq(posts, LAMBDA q : q.at >= i /\ q.outcome = "stored")
    IN [k \in 1..Len(qs) |-> Record(qs[k].role, qs[k].content)]

Clears(c) ==
    Cardinality({k \in 1..Len(inbox[c]) : inbox[c][k].ev = ClearEvent})

\* C6: a reset whose DELETE the store performs leaves in the store only what
\* is appended after it, makes one broadcast, of a clear event, and once it
\* has returned every connected viewer has received that event once.
C6_ResetClearsAndNotifies ==
    \A d \in Rst :
        deleted[d] = "deleted" =>
            /\ store = PostedSince(bid[d])
            /\ CallsBy(d) = {bid[d]}
            /\ blog[bid[d]].msg = ClearEvent
            /\ pc[d] = "done" =>
                 \A c \in Range(active_connections) :
                     sock[c] = "open" => Clears(c) = 1 /\ Count(c, bid[d]) = 1

C6_Witness ==
    /\ pc["d1"] = "done"
    /\ deleted["d1"] = "deleted"
    /\ store = <<>>
    /\ active_connections = <<"c1", "c2">>
    /\ Clears("c1") = 1
    /\ Clears("c2") = 1

\* C7: when a broadcast call has returned, every viewer of its snapshot that
\* is still there has received its event exactly once, whichever other
\* viewers' sends raised.
C7_FailureDoesNotStopDelivery ==
    \A i \in 1..Len(blog) :
        /\ \A c \in Conn : Count(c, i) <= 1
        /\ Completed(i) =>
             \A c \in Range(blog[i].snap) : sock[c] = "open" => Count(c, i) = 1

C7_Witness ==
    \E p \in Req \cup Rst :
        /\ bid[p] > 0
        /\ Completed(bid[p])
        /\ blog[bid[p]].snap = <<"c1", "c2">>
        /\ bfail[p] = {"c1"}
        /\ Count("c2", bid[p]) = 1

\* C8: once a broadcast call has returned, no connection whose send raised
\* in it is registered.
C8_FailedConnectionPruned ==
    \A p \in Req \cup Rst :
        pc[p] # "bcast" => \A c \in bfail[p] : c \notin Range(active_connections)

\* C9: a fetch the store answers with a failure or a payload of another
\* shape yields the empty history, in the orchestrator and at connect time.
C9_MalformedFetchYieldsEmpty ==
    /\ \A r \in Req :
         served[r] \in {"failed", "malformed"} =>
            raw_history[r] = JList(<<>>) /\ pc[r] # "crashed"
    /\ \A c \in Conn :
         served[c] \in {"failed", "malformed"} =>
            (IF IsList(history[c]) THEN history[c].items ELSE <<>>) = <<>>

\* C10: every viewer receives broadcast events in the order of the calls.
C10_ReceivedInCallOrder ==
    \A c \in Conn : \A i, j \in 1..Len(inbox[c]) :
        (i < j /\ inbox[c][i].id # 0 /\ inbox[c][j].id # 0)
            => inbox[c][i].id < inbox[c][j].id

\* C11: every broadcast call returns, having delivered its event to every
\* viewer of its snapshot that is there to read it, even when the send to
\* one viewer never completes.
C11_BroadcastAlwaysReturns ==
    \A p \in Req \cup Rst :
        (pc[p] = "bcast") ~>
            (/\ pc[p] # "bcast"
             /\ bid[p] > 0
             /\ \A c \in Range(blog[bid[p]].snap) :
                  sock[c] = "open" => Count(c, bid[p]) = 1)

RECURSIVE Concat(_)
Concat(texts) == IF texts = <<>> THEN "" ELSE Head(texts) \o Concat(Tail(texts))

\* The assistant messages request r has posted to the store.
AssistantPosts(r) == SelectSeq(posts, LAMBDA q : q.by = r /\ q.role = "assistant")

\* The texts of the fragments broadcast for r's generation, in call order.
BroadcastTexts(r) ==
    LET es == SelectSeq(GenEvents(r), LAMBDA e : HasType(e, "stream"))
    IN [i \in 1..Len(es) |-> es[i].chunk]

\* The broadcast calls of r's generation that carry event e.
CallsWith(r, e) == {i \in CallsBy(r) : blog[i].msg = e}

\* C12: a generation that has returned without an error has posted one
\* assistant message, whose content is the concatenation, in order, of the
\* fragments it broadcast; the POST was made after the last fragment and
\* before the stream_end broadcast, and a store that accepted it (and was
\* not reset) holds it.  No assistant message is posted before the stream
\* is over.
C12_OneAssistantMessageBeforeEnd ==
    \A r \in Req :
        LET a == AssistantPosts(r) IN
        /\ pc[r] \in {"idle", "save_user", "fetch", "stream", "save_asst", "crashed"}
             => a = <<>>
        /\ (pc[r] = "bcast" /\ ret[r] # "done") => a = <<>>
        /\ (pc[r] = "done" /\ ~raised[r]) =>
             /\ Len(a) = 1
             /\ a[1].content = Concat(BroadcastTexts(r))
             /\ Cardinality(CallsWith(r, StreamEnd)) = 1
             /\ \A i \in CallsBy(r) :
                  IF blog[i].msg = StreamEnd THEN a[1].at < i ELSE i <= a[1].at
             /\ (a[1].outcome = "stored" /\ \A d \in Rst : deleted[d] = "none")
                  => Record("assistant", a[1].content) \in Range(store)

C12_Witness ==
    /\ pc["r1"] = "done"
    /\ ~raised["r1"]
    /\ BroadcastTexts("r1") = <<"Hel", "lo">>
    /\ AssistantPosts("r1")[1].content = "Hello"
    /\ store[Len(store)] = Record("assistant", "Hello")
    /\ pc["c1"] = "recv"

\* The viewers broadcast call i has yet to send to: those of its snapshot
\* from some position on, whoever has registered or left since the call
\* started.
Pending(i) == IF Completed(i) THEN <<>> ELSE bq[blog[i].by]

IsSuffix(t, u) ==
    \E k \in 0..Len(u) : t = SubSeq(u, k + 1, Len(u))

\* C13: a broadcast call sends to the viewers registered when it started,
\* in that order: whatever registers or unregisters while it is suspended,
\* its remaining sends are the rest of that snapshot, no viewer outside the
\* snapshot is sent its event, every viewer of the snapshot it has passed
\* and that is still there has the event once, and so has every one when
\* the call has returned.
C13_BroadcastUsesSnapshot ==
    \A i \in 1..Len(blog) :
        LET snap == blog[i].snap IN
        /\ IsSuffix(Pending(i), snap)
        /\ \A c \in Conn : Count(c, i) > 0 => c \in Range(snap)
        /\ \A c \in Range(snap) \ Range(Pending(i)) :
             sock[c] = "open" => Count(c, i) = 1

\* The first viewer of the snapshot was sent the event and has been
\* unregistered since, while the call still has to send to the second.
C13_Witness ==
    /\ pc["d1"] = "bcast"
    /\ blog[bid["d1"]].snap = <<"c1", "c2">>
    /\ bq["d1"] = <<"c2">>
    /\ Count("c1", bid["d1"]) = 1
    /\ active_connections = <<"c2">>
    /\ sock["c2"] = "open"

\* C14: all a viewer receives is the replay of its own connect, as "full"
\* events of records the store held when it was fetched, and the events of
\* the broadcast calls that started while it was registered: never the event
\* of a call made before it registered.
C14_NoBufferingForLateViewers ==
    \A c \in Conn : \A k \in 1..Len(inbox[c]) :
        LET e == inbox[c][k] IN
        IF e.id = 0
        THEN /\ HasType(e.ev, "full")
             /\ e.by = c
             /\ served[c] = "faithful" =>
                  \E i \in 1..Len(fetched[c]) : e.ev = FullEvent(fetched[c][i])
        ELSE /\ e.ev = blog[e.id].msg
             /\ ~HasType(e.ev, "full")
             /\ c \in Range(blog[e.id].snap)

\* The viewer connected between the two fragments of a generation: it has
\* the second one and stream_end, not the first.
C14_Witness ==
    /\ pc["r1"] = "done"
    /\ pc["c1"] = "recv"
    /\ BroadcastTexts("r1") = <<"Hel", "lo">>
    /\ ReceivedFrom("c1", "r1") = <<StreamEvent("lo"), StreamEnd>>
    /\ Len(Fulls("c1")) >= 2

\* The backend has been called for request r.
Invoked(r) ==
    \/ pc[r] \in {"stream", "save_asst", "err_end", "done"}
    \/ pc[r] = "bcast" /\ ret[r] \in {"stream", "err_end", "done"}

\* The turn a record of the history stands for.
RecordTurn(rec) ==
    [role |-> IF /\ "role" \in DOMAIN rec.fields
                 /\ rec.fields.role \in {JStr("assistant"), JStr("model")}
              THEN "model" ELSE "user",
     text |-> IF "content" \in DOMAIN rec.fields THEN rec.fields.content
              ELSE JStr("")]

\* C15: the backend is called with one turn per record of the fetched
\* history, in stored order (a model turn for the roles assistant and model,
\* a human turn for any other role and for no role, empty text for no
\* content), followed by one human turn with the current user_content.
C15_TurnsAreHistoryThenUserMessage ==
    \A r \in Req :
        Invoked(r) =>
            LET h == raw_history[r].items IN
            /\ served[r] = "faithful" => h = fetched[r]
            /\ gemini_contents[r] =
                 [i \in 1..Len(h) |-> RecordTurn(h[i])]
                 \o <<[role |-> "user", text |-> JStr(user_content[r])]>>

C15_Witness ==
    /\ pc["r1"] = "done"
    /\ served["r1"] = "faithful"
    /\ Len(fetched["r1"]) >= 2
    /\ Len(gemini_contents["r1"]) >= 3
    /\ SubSeq(fetched["r1"], 1, 2) =
         <<JDict([content |-> JStr("e")]), JDict([role |-> JStr("model")])>>
    /\ SubSeq(gemini_contents["r1"], 1, 2) =
         <<Turn("user", JStr("e")), Turn("model", JStr(""))>>
    /\ gemini_contents["r1"][Len(gemini_contents["r1"])] = Turn("user", JStr("hi"))

\* C16: when the orchestrator's fetch fails (the request raises, the status
\* is not 200, the body is not JSON) the generation goes on with an empty
\* history: the backend is called with the current user message as its only
\* turn, and a generation that has returned has broadcast its fragments and
\* then stream_end.
C16_FailedFetchDegradesToEmpty ==
    \A r \in Req :
        served[r] = "failed" =>
            /\ Invoked(r)
            /\ raw_history[r] = JList(<<>>)
            /\ gemini_contents[r] = <<Turn("user", JStr(user_content[r]))>>
            /\ pc[r] = "done" => GenEvents(r) = Expected(r)

C16_Witness ==
    /\ served["r1"] = "failed"
    /\ pc["r1"] = "done"
    /\ BroadcastTexts("r1") = <<"Hel", "lo">>
    /\ gemini_contents["r1"] = <<Turn("user", JStr("hi"))>>
    /\ ReceivedFrom("c1", "r1") = Expected("r1")

\* Request r's generation is over: its last broadcast, of stream_end, has
\* returned, and it has posted its assistant message unless the backend
\* raised.
RanToEnd(r) ==
    /\ pc[r] = "done"
    /\ blog[Max(CallsBy(r))].msg = StreamEnd
    /\ Len(AssistantPosts(r)) = (IF raised[r] THEN 0 ELSE 1)

\* C17: a generation whose backend call has been made always gets to its
\* end, through its persistence step when the backend does not raise and
\* through its stream_end broadcast, whatever resets are made or viewers
\* leave in the meantime.
C17_GenerationIsNotCancelled ==
    \A r \in Req : Invoked(r) ~> RanToEnd(r)

\* A generation has ended after a reset was made and the only viewer was
\* unregistered while it was streaming: its stream_end call found nobody.
C17_Witness ==
    /\ RanToEnd("r1")
    /\ ~raised["r1"]
    /\ deleted["d1"] = "deleted"
    /\ active_connections = <<>>
    /\ blog[Max(CallsBy("r1"))].snap = <<>>
    /\ \E i \in CallsBy("r1") :
         /\ HasType(blog[i].msg, "stream")
         /\ blog[i].snap = <<"c1">>
         /\ bid["d1"] > i

\* The positions of the turns of r's context that carry its user message.
UserTurns(r) ==
    {k \in 1..Len(gemini_contents[r]) :
        gemini_contents[r][k] = Turn("user", JStr(user_content[r]))}

\* C18: when the store has appended the user message of a submit, the
\* context its generation passes to the backend holds that message once,
\* as its final turn.
C18_UserMessageOnceInContext ==
    \A r \in Req :
        (/\ Invoked(r)
         /\ Len(UserPosts(r)) = 1
         /\ UserPosts(r)[1].outcome = "stored")
            => UserTurns(r) = {Len(gemini_contents[r])}

\* Viewer c has been replayed record rec.
Replayed(c, rec) ==
    \E k \in 1..Len(inbox[c]) :
        HasType(inbox[c][k].ev, "full") /\ inbox[c][k].ev = FullEvent(rec)

\* Viewer c has been sent the user message of request r both by the submit's
\* broadcast and in a replay.
UserMessageTwice(c, r) ==
    /\ \E k \in 1..Len(inbox[c]) :
         /\ inbox[c][k].by = r
         /\ "type" \notin DOMAIN inbox[c][k].ev
         /\ inbox[c][k].ev = UserEvent(user_content[r])
    /\ Replayed(c, Record("user", user_content[r]))

\* Viewer c has been sent fragments of r's answer and the stored answer in
\* a replay.
AnswerTwice(c, r) ==
    /\ \E k \in 1..Len(inbox[c]) :
         inbox[c][k].by = r /\ HasType(inbox[c][k].ev, "stream")
    /\ AssistantPosts(r) # <<>>
    /\ Replayed(c, Record("assistant", AssistantPosts(r)[1].content))

\* C19: a viewer receives its replay before any broadcast event, and no
\* message both as a broadcast event and as a replayed "full" event.
C19_ReplayFirstNoDuplicate ==
    \A c \in Conn :
        /\ \A i, j \in 1..Len(inbox[c]) :
             (i < j /\ inbox[c][i].id # 0) => inbox[c][j].id # 0
        /\ \A r \in Req : ~UserMessageTwice(c, r) /\ ~AnswerTwice(c, r)

\* The texts of the fragments viewer c has received, in arrival order.
StreamTexts(c) ==
    LET es == SelectSeq(inbox[c], LAMBDA e : HasType(e.ev, "stream"))
    IN [i \in 1..Len(es) |-> es[i].ev.chunk]

\* C20: with two generations streaming at once, the accumulator of each
\* holds the concatenation of its own fragments and nothing else; each one
\* that returns without an error has posted one assistant message with that
\* content, the fragments it broadcast being those its own backend call
\* produced; and each one that returns has broadcast stream_end once.
C20_ConcurrentGenerationsIndependent ==
    \A r \in Req :
        /\ full_response[r] = Concat(Fragments(r))
        /\ \A t \in Range(Fragments(r)) : t \in Range(Script(r))
        /\ Cardinality(CallsWith(r, StreamEnd)) =
             (IF pc[r] = "done" \/ (pc[r] = "bcast" /\ ret[r] = "done")
              THEN 1 ELSE 0)
        /\ pc[r] = "done" => RanToEnd(r)
        /\ (pc[r] = "done" /\ ~raised[r]) =>
             /\ BroadcastTexts(r) = Fragments(r)
             /\ Len(AssistantPosts(r)) = 1
             /\ AssistantPosts(r)[1].content = Concat(Fragments(r))

\* Both generations have returned and their fragments reached the viewer
\* interleaved.
C20_Witness ==
    /\ pc["r1"] = "done" /\ pc["r2"] = "done"
    /\ StreamTexts("c1") = <<"Hel", "Bon", "lo", "jour">>
    /\ AssistantPosts("r1")[1].content = "Hello"
    /\ AssistantPosts("r2")[1].content = "Bonjour"
    /\ Cardinality({k \in 1..Len(inbox["c1"]) : inbox["c1"][k].ev = StreamEnd}) = 2

====
